---- MODULE Spec2Model ----
(***************************************************************************)
(* A model of the url-shortener: the Base-62 codec, the Snowflake-style    *)
(* key generator and the cache-aside read / write-through create paths of  *)
(* the URL service.                                                        *)
(*                                                                         *)
(* Strings that the codec handles are sequences of one-character strings.  *)
(* Time is counted in whole units from an origin shortly before the        *)
(* generator's epoch, so that every packed identifier stays inside TLC's   *)
(* 32-bit integers; within the checked ranges no 64-bit value wraps.       *)
(***************************************************************************)
EXTENDS Integers, Sequences, FiniteSets, TLC

VARIABLES
    \* ---- the wall clock (time.Now()), shared by every component
    clock,          \* current reading, in time units
    regressed,      \* history: TRUE once the clock has been set backward
    \* ---- base62 codec harness
    cpc,            \* "input" | "encoded" | "decoded", or "raw" | "rawdecoded"
    num,            \* the uint64 handed to Encode / EncodePadded
    minLen,         \* the minLength handed to EncodePadded
    padded,         \* TRUE: EncodePadded was applied, FALSE: Encode
    str,            \* the string produced by the encoder
    decoded,        \* the (value, error) pair returned by Decode
    \* ---- SnowFlakeGenerator
    genCfg,         \* the keygen.Config handed to NewSnowflakeGenerator
    genErr,         \* error returned by NewSnowflakeGenerator ("nil" if none)
    machineID,      \* g.machineID
    minLength,      \* g.minLength
    maxLength,      \* g.maxLength
    sequence,       \* g.sequence
    lastTimestamp,  \* g.lastTimestamp
    mu,             \* g.mu: the caller holding the mutex, or NoHolder
    gpc,            \* per caller: "idle" | "lock" | "locked" | "wait"
    overlapped,     \* per caller: another call completed while this one was blocked on g.mu
    issued,         \* history: the identifiers issued, in order of issue
    \* ---- URL service and its two stores
    cfg,            \* URLServiceConfig as normalised by NewURLService
    db,             \* rows of table urls
    cache,          \* redis keys "url:<code>" with their remaining TTL
    last            \* outcome of the handler call made by the step just taken

codecVars == <<cpc, num, minLen, padded, str, decoded>>
genVars   == <<genCfg, genErr, machineID, minLength, maxLength, sequence, lastTimestamp,
               mu, gpc, overlapped, issued>>
svcVars   == <<cfg, db, cache, last>>
vars      == <<clock, regressed, codecVars, genVars, svcVars>>

NoErr == "nil"

Range(s) == {s[i] : i \in DOMAIN s}

(***************************************************************************)
(* Bounds of the model.                                                    *)
(***************************************************************************)
MaxNum    == 140    \* largest integer handed to the encoder
MaxPad    == 3      \* largest minLength handed to EncodePadded
MaxClock  == 2      \* the clock reads EPoch .. EPoch + MaxClock
MaxIssued == 2      \* Generate calls per behaviour of the generator
NumCallers == 2     \* concurrent callers of Generate
MaxRaw    == 2      \* longest string handed to Decode directly
MaxRows   == 1      \* rows the durable store may hold

(***************************************************************************)
(* internal/pkg/base62                                                     *)
(***************************************************************************)
Alphabet ==
    << "0","1","2","3","4","5","6","7","8","9",
       "A","B","C","D","E","F","G","H","I","J","K","L","M",
       "N","O","P","Q","R","S","T","U","V","W","X","Y","Z",
       "a","b","c","d","e","f","g","h","i","j","k","l","m",
       "n","o","p","q","r","s","t","u","v","w","x","y","z" >>

Base == 62

\* init(): character -> index in Alphabet (0-based)
alphabetIndex == [c \in Range(Alphabet) |-> (CHOOSE i \in 1..Len(Alphabet) : Alphabet[i] = c) - 1]
\* a variant of reverse that returns its argument unchanged (ruled out by C21)
reverseNot(s) == s


reverse(s) == [i \in 1..Len(s) |-> s[Len(s) + 1 - i]]

\* the loop of Encode: the digits of n, least significant first
RECURSIVE WriteDigits(_)
WriteDigits(n) ==
    IF n > 0 THEN <<Alphabet[(n % Base) + 1]>> \o WriteDigits(n \div Base)
             ELSE <<>>

Encode(n) ==
    IF n = 0 THEN <<Alphabet[1]>>
             ELSE reverse(WriteDigits(n))

\* strings.Repeat
Repeat(c, k) == [i \in 1..k |-> c]
\* a variant of EncodePadded that pads on the right (ruled out by C20)
EncodePaddedRight(n, minL) ==
    LET encoded == Encode(n)
    IN  IF Len(encoded) >= minL
          THEN encoded
          ELSE encoded \o Repeat(Alphabet[1], minL - Len(encoded))

EncodePadded(n, minL) ==
    LET encoded == Encode(n)
    IN  IF Len(encoded) >= minL
          THEN encoded
          ELSE Repeat(Alphabet[1], minL - Len(encoded)) \o encoded

\* a variant of the loop that skips a character it does not know instead of
\* failing on it (ruled out by C22)
RECURSIVE DecodeLoopSkipping(_, _, _)
DecodeLoopSkipping(s, i, results) ==
    IF i > Len(s) THEN [val |-> results, err |-> NoErr]
    ELSE IF s[i] \notin DOMAIN alphabetIndex
           THEN DecodeLoopSkipping(s, i + 1, results)
           ELSE DecodeLoopSkipping(s, i + 1, results * Base + Base)

\* the loop of Decode from character i on; the looked-up index is discarded
\* and the accumulator is advanced by Base
RECURSIVE DecodeLoop(_, _, _)
DecodeLoop(s, i, results) ==
    IF i > Len(s) THEN [val |-> results, err |-> NoErr]
    ELSE IF s[i] \notin DOMAIN alphabetIndex
           THEN [val |-> 0, err |-> "invalid character in base62 string"]
           ELSE DecodeLoop(s, i + 1, results * Base + Base)

Decode(s) ==
    IF Len(s) = 0 THEN [val |-> 0, err |-> "empty string"]
                  ELSE DecodeLoop(s, 1, 0)

(***************************************************************************)
(* The codec harness: an input is drawn, encoded, and decoded again.       *)
(***************************************************************************)
NoDecode == [val |-> 0, err |-> "not called"]

DoEncode ==
    /\ cpc = "input"
    /\ str' = IF padded THEN EncodePadded(num, minLen) ELSE Encode(num)
    /\ cpc' = "encoded"
    /\ UNCHANGED <<num, minLen, padded, decoded>>

DoDecode ==
    /\ cpc = "encoded"
    /\ decoded' = Decode(str)
    /\ cpc' = "decoded"
    /\ UNCHANGED <<num, minLen, padded, str>>

\* Decode applied to a string that did not come from the encoder
RawChars   == {"0", "z", "!"}
RawStrings == UNION {[1..n -> RawChars] : n \in 0..MaxRaw}

DoDecodeRaw ==
    /\ cpc = "raw"
    /\ decoded' = Decode(str)
    /\ cpc' = "rawdecoded"
    /\ UNCHANGED <<num, minLen, padded, str>>

(***************************************************************************)
(* internal/pkg/keygen                                                     *)
(***************************************************************************)
\* The configured epoch, counted from the model's time origin (the source
\* value is 1704067200000 ms after the Unix epoch).
EPoch == 1
MachineIDBits == 10
SequenceBits  == 12
MaxMachineID == (2 ^ MachineIDBits) - 1
MaxSequence  == (2 ^ SequenceBits) - 1
TimestampShift == MachineIDBits + SequenceBits
MachineIDShift == SequenceBits

\* x << k, x | y and x & y on non-negative integers
Shl(x, k) == x * (2 ^ k)

RECURSIVE BitOr(_, _)
BitOr(a, b) ==
    IF a = 0 THEN b
    ELSE IF b = 0 THEN a
    ELSE (IF a % 2 = 1 \/ b % 2 = 1 THEN 1 ELSE 0) + 2 * BitOr(a \div 2, b \div 2)

RECURSIVE BitAnd(_, _)
BitAnd(a, b) ==
    IF a = 0 \/ b = 0 THEN 0
    ELSE (IF a % 2 = 1 /\ b % 2 = 1 THEN 1 ELSE 0) + 2 * BitAnd(a \div 2, b \div 2)

Callers  == 1..NumCallers
NoHolder == 0

\* keygen.Config values the generator may be constructed with
GenConfigs ==
    {c \in [MachineID : {-1, 0, 1, MaxMachineID, MaxMachineID + 1},
            MinLength : {0, 2, 8},
            MaxLength : {0, 3, 12}] :
        (IF c.MinLength = 0 THEN 6 ELSE c.MinLength)
            <= (IF c.MaxLength = 0 THEN 10 ELSE c.MaxLength)}
\* a variant of the constructor that also rejects the largest machine id
\* (ruled out by C18)
NewSnowflakeGeneratorBelowMax(c) ==
    IF c.MachineID < 0 \/ c.MachineID >= MaxMachineID
      THEN [err |-> "machine ID must be between 0 and 1023",
            machineID |-> 0, sequence |-> 0, lastTimestamp |-> 0,
            minLength |-> 0, maxLength |-> 0]
      ELSE [err |-> NoErr,
            machineID |-> c.MachineID,
            sequence |-> 0,
            lastTimestamp |-> -1,
            minLength |-> IF c.MinLength = 0 THEN 6 ELSE c.MinLength,
            maxLength |-> IF c.MaxLength = 0 THEN 10 ELSE c.MaxLength]

NewSnowflakeGenerator(c) ==
    IF c.MachineID < 0 \/ c.MachineID > MaxMachineID
      THEN [err |-> "machine ID must be between 0 and 1023",
            machineID |-> 0, sequence |-> 0, lastTimestamp |-> 0,
            minLength |-> 0, maxLength |-> 0]
      ELSE [err |-> NoErr,
            machineID |-> c.MachineID,
            sequence |-> 0,
            lastTimestamp |-> -1,
            minLength |-> IF c.MinLength = 0 THEN 6 ELSE c.MinLength,
            maxLength |-> IF c.MaxLength = 0 THEN 10 ELSE c.MaxLength]

\* g.currentTimestamp(): the wall clock in milliseconds
currentTimestamp == clock

\* a variant that keeps the incremented sequence in the regression branch
\* (ruled out by C27)
GenerateReadKeepsIncrement(timestamp, seq, lastTs) ==
    IF timestamp < lastTs
      THEN LET s1 == BitAnd(seq + 1, MaxSequence)
           IN  [sequence |-> s1, wait |-> s1 = 0]
      ELSE [sequence |-> seq, wait |-> FALSE]

\* Generate, from the clock reading to the branch taken on it: the sequence
\* it leaves in g.sequence and whether it goes on to waitNextMillis
GenerateRead(timestamp, seq, lastTs) ==
    IF timestamp < lastTs
      THEN LET s1 == BitAnd(seq + 1, MaxSequence)
           IN  IF s1 = 0 THEN [sequence |-> s1, wait |-> TRUE]
                         ELSE [sequence |-> 0,  wait |-> FALSE]
      ELSE [sequence |-> seq, wait |-> FALSE]

\* a variant of the packing that shifts the machine id by its own width
\* (ruled out by C24)
PackNarrowShift(timestamp, mid, seq) ==
    BitOr(BitOr(Shl(timestamp - EPoch, TimestampShift), Shl(mid, MachineIDBits)), seq)

\* the packed identifier
Pack(timestamp, mid, seq) ==
    BitOr(BitOr(Shl(timestamp - EPoch, TimestampShift), Shl(mid, MachineIDShift)), seq)

\* the entry the history keeps for one issued identifier
Issue(p, timestamp, seq, conc) ==
    LET id == Pack(timestamp, machineID, seq)
    IN  [id         |-> id,
         code       |-> EncodePadded(id, minLength),
         timestamp  |-> timestamp,
         sequence   |-> seq,
         caller     |-> p,
         concurrent |-> conc,
         regression |-> timestamp < lastTimestamp,
         lastBefore |-> lastTimestamp]

\* Generate: record lastTimestamp, pack, encode, unlock (deferred) and return
GenReturn(p, timestamp, seq) ==
    /\ sequence' = seq
    /\ lastTimestamp' = timestamp
    /\ issued' = Append(issued, Issue(p, timestamp, seq, overlapped[p]))
    /\ mu' = NoHolder
    /\ gpc' = [gpc EXCEPT ![p] = "idle"]
    /\ overlapped' = [q \in Callers |->
                        IF q = p THEN FALSE ELSE overlapped[q] \/ gpc[q] = "lock"]

\* a caller enters Generate and blocks on g.mu.Lock()
GenCall(p) ==
    /\ genErr = NoErr
    /\ gpc[p] = "idle"
    /\ Len(issued) + Cardinality({q \in Callers : gpc[q] # "idle"}) < MaxIssued
    /\ gpc' = [gpc EXCEPT ![p] = "lock"]
    /\ UNCHANGED <<genCfg, genErr, machineID, minLength, maxLength, sequence, lastTimestamp,
                   mu, overlapped, issued>>
    /\ UNCHANGED <<clock, regressed, codecVars, svcVars>>

\* a variant of the lock step that does not wait for the mutex (ruled out by C17)
GenLockNoMutex(p) ==
    /\ gpc[p] = "lock"
    /\ mu' = p
    /\ gpc' = [gpc EXCEPT ![p] = "locked"]
    /\ UNCHANGED <<genCfg, genErr, machineID, minLength, maxLength, sequence, lastTimestamp,
                   overlapped, issued>>
    /\ UNCHANGED <<clock, regressed, codecVars, svcVars>>

\* g.mu.Lock() succeeds
GenLock(p) ==
    /\ gpc[p] = "lock"
    /\ mu = NoHolder
    /\ mu' = p
    /\ gpc' = [gpc EXCEPT ![p] = "locked"]
    /\ UNCHANGED <<genCfg, genErr, machineID, minLength, maxLength, sequence, lastTimestamp,
                   overlapped, issued>>
    /\ UNCHANGED <<clock, regressed, codecVars, svcVars>>

\* the body of Generate under the mutex: the clock read and what follows it,
\* or one iteration of waitNextMillis
GenBody(p) ==
    /\ mu = p
    /\ gpc[p] \in {"locked", "wait"}
    /\ IF gpc[p] = "locked"
         THEN LET timestamp == currentTimestamp
                  r == GenerateRead(timestamp, sequence, lastTimestamp)
              IN  IF r.wait
                    THEN /\ sequence' = r.sequence
                         /\ gpc' = [gpc EXCEPT ![p] = "wait"]
                         /\ UNCHANGED <<lastTimestamp, mu, overlapped, issued>>
                    ELSE GenReturn(p, timestamp, r.sequence)
         ELSE \* waitNextMillis(g.lastTimestamp)
              LET timestamp == currentTimestamp
              IN  IF timestamp <= lastTimestamp
                    THEN UNCHANGED <<sequence, lastTimestamp, mu, gpc, overlapped, issued>>
                    ELSE GenReturn(p, timestamp, sequence)
    /\ UNCHANGED <<genCfg, genErr, machineID, minLength, maxLength>>
    /\ UNCHANGED <<clock, regressed, codecVars, svcVars>>

(***************************************************************************)
(* The record of a handler call.                                           *)
(***************************************************************************)
\* the errors of the collaborator calls one invocation made ("-": not called)
NoErrs == [get |-> "-", del |-> "-", query |-> "-", set |-> "-"]

\* no call was made by the step
NoCall ==
    [op |-> "none", code |-> <<>>, req |-> <<>>, err |-> NoErr, url |-> <<>>,
     resp |-> <<>>, status |-> 0, calls |-> <<>>, errs |-> NoErrs]

(***************************************************************************)
(* The wall clock.  A forward step also ages the redis keys.               *)
(***************************************************************************)
Tick ==
    /\ clock < EPoch + MaxClock
    /\ clock' = clock + 1
    /\ cache' = {[e EXCEPT !.ttl = e.ttl - 1] : e \in {x \in cache : x.ttl > 1}}
    /\ last' = NoCall
    /\ UNCHANGED <<regressed, cfg, db, codecVars, genVars>>

\* the clock is set backward (an NTP step); redis TTLs keep running forward
Regress ==
    /\ clock > EPoch
    /\ clock' = clock - 1
    /\ regressed' = TRUE
    /\ last' = NoCall
    /\ UNCHANGED <<cfg, db, cache, codecVars, genVars>>

(***************************************************************************)
(* internal/domain                                                         *)
(***************************************************************************)
ErrURLNotFound       == "url not found"
ErrURLExpired        == "url has expired"
ErrInvalidURL        == "invalid url format"
ErrShortCodeExists   == "short code already exists"
ErrRateLimitExceeded == "rate limit exceeded"
ErrInvalidShortCode  == "invalid short code"

\* errors of the libraries underneath the two repositories
ErrNoRows    == "sql: no rows in result set"
ErrUnique    == "pq: duplicate key value violates unique constraint"
ErrDBDown    == "pq: connection refused"
ErrRedisDown == "redis: connection refused"
\* a variant of isExpired that grants one more instant (ruled out by C5)
isExpiredLate(u) ==
    IF u.ExpiresAt = <<>> THEN FALSE ELSE clock > u.ExpiresAt[1] + 1

\* A *time.Time is <<>> (nil) or <<t>>; a *domain.URL is <<>> (nil) or <<u>>.
isExpired(u) ==
    IF u.ExpiresAt = <<>> THEN FALSE
                          ELSE clock > u.ExpiresAt[1]

(***************************************************************************)
(* internal/repository: redis                                              *)
(***************************************************************************)
urlCachePrefix == "url:"
RedisDefaultTTL == 3   \* 24 * time.Hour, in time units

CacheKey(shortCode) == <<urlCachePrefix>> \o shortCode

\* a variant of the encoding that leaves the expiration out (ruled out by C25)
MarshalNoExpiry(u) ==
    [k \in {"short_url", "original_url", "created_at", "updated_at", "is_active"} |->
        CASE k = "short_url"    -> u.ShortURL
          [] k = "original_url" -> u.OriginalURL
          [] k = "created_at"   -> u.CreatedAt
          [] k = "updated_at"   -> u.UpdatedAt
          [] k = "is_active"    -> u.IsActive]

\* json.Marshal / json.Unmarshal of a domain.URL (expires_at is omitempty)
Marshal(u) ==
    [k \in {"short_url", "original_url", "created_at", "updated_at", "is_active"}
           \cup (IF u.ExpiresAt = <<>> THEN {} ELSE {"expires_at"}) |->
        CASE k = "short_url"    -> u.ShortURL
          [] k = "original_url" -> u.OriginalURL
          [] k = "created_at"   -> u.CreatedAt
          [] k = "updated_at"   -> u.UpdatedAt
          [] k = "is_active"    -> u.IsActive
          [] k = "expires_at"   -> u.ExpiresAt[1]]

Unmarshal(data) ==
    [ShortURL    |-> data["short_url"],
     OriginalURL |-> data["original_url"],
     CreatedAt   |-> data["created_at"],
     UpdatedAt   |-> data["updated_at"],
     ExpiresAt   |-> IF "expires_at" \in DOMAIN data THEN <<data["expires_at"]>> ELSE <<>>,
     IsActive    |-> data["is_active"]]
\* a variant of Get that looks the code up without the key prefix (ruled out by C8)
CacheGetBareKey(store, shortCode, down) ==
    LET hit == {e \in store : e.key = shortCode}
    IN  IF down THEN [url |-> <<>>, err |-> ErrRedisDown]
        ELSE IF hit = {} THEN [url |-> <<>>, err |-> NoErr]
        ELSE [url |-> <<Unmarshal((CHOOSE e \in hit : TRUE).data)>>, err |-> NoErr]

\* RedisCacheRepository.Get; down: the redis call fails
CacheGet(store, shortCode, down) ==
    LET hit == {e \in store : e.key = CacheKey(shortCode)}
    IN  IF down THEN [url |-> <<>>, err |-> ErrRedisDown]
        ELSE IF hit = {} THEN [url |-> <<>>, err |-> NoErr]
        ELSE [url |-> <<Unmarshal((CHOOSE e \in hit : TRUE).data)>>, err |-> NoErr]
\* a variant of Set that ignores the ttl it is given (ruled out by C7)
CacheSetDefaultTTL(store, u, ttl, down) ==
    IF down THEN [cache |-> store, err |-> ErrRedisDown]
    ELSE [cache |-> {e \in store : e.key # CacheKey(u.ShortURL)}
                      \cup {[key |-> CacheKey(u.ShortURL), data |-> Marshal(u),
                             ttl |-> RedisDefaultTTL]},
          err |-> NoErr]

\* RedisCacheRepository.Set
CacheSet(store, u, ttl, down) ==
    LET t == IF ttl = 0 THEN RedisDefaultTTL ELSE ttl
    IN  IF down THEN [cache |-> store, err |-> ErrRedisDown]
        ELSE [cache |-> {e \in store : e.key # CacheKey(u.ShortURL)}
                          \cup {[key |-> CacheKey(u.ShortURL), data |-> Marshal(u), ttl |-> t]},
              err |-> NoErr]
\* a variant of Delete that removes the key without its prefix (ruled out by C6)
CacheDeleteBareKey(store, shortCode, down) ==
    IF down THEN [cache |-> store, err |-> ErrRedisDown]
            ELSE [cache |-> {e \in store : e.key # shortCode}, err |-> NoErr]

\* RedisCacheRepository.Delete
CacheDelete(store, shortCode, down) ==
    IF down THEN [cache |-> store, err |-> ErrRedisDown]
            ELSE [cache |-> {e \in store : e.key # CacheKey(shortCode)}, err |-> NoErr]

(***************************************************************************)
(* internal/repository: postgres                                           *)
(***************************************************************************)
\* a variant of Create that stamps the inserted row but not the caller's
\* entry (ruled out by C15)
PgCreateByValue(rows, u, down) ==
    LET stamped == [u EXCEPT !.CreatedAt = clock, !.UpdatedAt = clock, !.IsActive = TRUE]
    IN  IF down THEN [db |-> rows, url |-> u, err |-> ErrDBDown]
        ELSE IF \E r \in rows : r.ShortURL = u.ShortURL
          THEN [db |-> rows, url |-> u, err |-> ErrUnique]
          ELSE [db |-> rows \cup {stamped}, url |-> u, err |-> NoErr]

\* PostgresURLRepository.Create: stamps the entry, then INSERT under the
\* UNIQUE constraint on short_code
PgCreate(rows, u, down) ==
    LET stamped == [u EXCEPT !.CreatedAt = clock, !.UpdatedAt = clock, !.IsActive = TRUE]
    IN  IF down THEN [db |-> rows, url |-> stamped, err |-> ErrDBDown]
        ELSE IF \E r \in rows : r.ShortURL = u.ShortURL
          THEN [db |-> rows, url |-> stamped, err |-> ErrUnique]
          ELSE [db |-> rows \cup {stamped}, url |-> stamped, err |-> NoErr]

\* a variant of GetByShortCode without the expiration test (ruled out by C11)
GetByShortCodeAnyAge(rows, shortCode, down) ==
    LET found == {r \in rows : r.ShortURL = shortCode /\ r.IsActive}
    IN  IF down THEN [url |-> <<>>, err |-> ErrDBDown]
        ELSE IF found = {} THEN [url |-> <<>>, err |-> ErrNoRows]
        ELSE [url |-> <<CHOOSE r \in found : TRUE>>, err |-> NoErr]

\* PostgresURLRepository.GetByShortCode
GetByShortCode(rows, shortCode, down) ==
    LET found == {r \in rows : r.ShortURL = shortCode /\ r.IsActive}
    IN  IF down THEN [url |-> <<>>, err |-> ErrDBDown]
        ELSE IF found = {} THEN [url |-> <<>>, err |-> ErrNoRows]
        ELSE LET u == CHOOSE r \in found : TRUE
             IN  IF isExpired(u) THEN [url |-> <<>>, err |-> ErrURLExpired]
                                 ELSE [url |-> <<u>>, err |-> NoErr]

(***************************************************************************)
(* internal/service (the variant cmd/api/main.go constructs, with metrics) *)
(***************************************************************************)
ServiceCacheTTL == 3   \* 24 * time.Hour, in time units
BaseURL == "http://localhost:8080"

\* URLServiceConfig values the service may be constructed with
ServiceConfigs ==
    { [DefaultTTL |-> 0, MaxTTL |-> 0, AllowCustom |-> TRUE,  CacheTTL |-> 0],
      [DefaultTTL |-> 2, MaxTTL |-> 1, AllowCustom |-> FALSE, CacheTTL |-> 0],
      [DefaultTTL |-> 0, MaxTTL |-> 1, AllowCustom |-> TRUE,  CacheTTL |-> 1] }

NewURLService(c) ==
    [baseURL     |-> BaseURL,
     defaultTTL  |-> c.DefaultTTL,
     maxTTL      |-> c.MaxTTL,
     allowCustom |-> c.AllowCustom,
     cacheTTL    |-> IF c.CacheTTL = 0 THEN ServiceCacheTTL ELSE c.CacheTTL]
\* a variant of GetURL that returns the error of the redis read or write
\* instead of absorbing it (ruled out by C9)
GetURLStrict(shortCode, f) ==
    LET got == CacheGet(cache, shortCode, f.get)
    IN  IF got.err # NoErr
          THEN [url |-> <<>>, err |-> got.err, cache |-> cache,
                calls |-> <<"cache.Get">>,
                errs |-> [NoErrs EXCEPT !.get = got.err]]
        ELSE IF got.url # <<>>
          THEN IF isExpired(got.url[1])
                 THEN LET del == CacheDelete(cache, shortCode, f.write)
                      IN  [url |-> <<>>, err |-> ErrURLExpired, cache |-> del.cache,
                           calls |-> <<"cache.Get", "cache.Delete">>,
                           errs |-> [NoErrs EXCEPT !.get = got.err, !.del = del.err]]
                 ELSE [url |-> got.url, err |-> NoErr, cache |-> cache,
                       calls |-> <<"cache.Get">>,
                       errs |-> [NoErrs EXCEPT !.get = got.err]]
          ELSE LET row == GetByShortCode(db, shortCode, f.query)
               IN  IF row.err # NoErr
                     THEN [url |-> <<>>, err |-> row.err, cache |-> cache,
                           calls |-> <<"cache.Get", "db.GetByShortCode">>,
                           errs |-> [NoErrs EXCEPT !.get = got.err, !.query = row.err]]
                     ELSE LET set == CacheSet(cache, row.url[1], cfg.cacheTTL, f.write)
                          IN  [url |-> IF set.err # NoErr THEN <<>> ELSE row.url,
                               err |-> set.err, cache |-> set.cache,
                               calls |-> <<"cache.Get", "db.GetByShortCode", "cache.Set">>,
                               errs |-> [NoErrs EXCEPT !.get = got.err, !.query = row.err,
                                                       !.set = set.err]]

\* URLService.GetURL.  f names the collaborator calls that fail in this
\* invocation: f.get (the redis read), f.write (the redis Delete or Set, of
\* which an invocation makes at most one) and f.query (postgres).
GetURL(shortCode, f) ==
    LET got == CacheGet(cache, shortCode, f.get)
    IN  IF got.url # <<>>
          THEN \* cache hit
               IF isExpired(got.url[1])
                 THEN LET del == CacheDelete(cache, shortCode, f.write)
                      IN  [url |-> <<>>, err |-> ErrURLExpired, cache |-> del.cache,
                           calls |-> <<"cache.Get", "cache.Delete">>,
                           errs |-> [NoErrs EXCEPT !.get = got.err, !.del = del.err]]
                 ELSE [url |-> got.url, err |-> NoErr, cache |-> cache,
                       calls |-> <<"cache.Get">>,
                       errs |-> [NoErrs EXCEPT !.get = got.err]]
          ELSE \* cache miss, or a cache error treated as one
               LET row == GetByShortCode(db, shortCode, f.query)
               IN  IF row.err # NoErr
                     THEN [url |-> <<>>, err |-> row.err, cache |-> cache,
                           calls |-> <<"cache.Get", "db.GetByShortCode">>,
                           errs |-> [NoErrs EXCEPT !.get = got.err, !.query = row.err]]
                     ELSE LET set == CacheSet(cache, row.url[1], cfg.cacheTTL, f.write)
                          IN  [url |-> row.url, err |-> NoErr, cache |-> set.cache,
                               calls |-> <<"cache.Get", "db.GetByShortCode", "cache.Set">>,
                               errs |-> [NoErrs EXCEPT !.get = got.err, !.query = row.err,
                                                       !.set = set.err]]

\* a variant of the expiration rule that never clamps (ruled out by C12)
ExpiresAtForUnclamped(req) ==
    IF req.ExpiresIn # <<>> /\ req.ExpiresIn[1] > 0
      THEN <<clock + req.ExpiresIn[1]>>
      ELSE IF cfg.defaultTTL > 0 THEN <<clock + cfg.defaultTTL>>
      ELSE <<>>

\* the expiration Create computes for a request
ExpiresAtFor(req) ==
    IF req.ExpiresIn # <<>> /\ req.ExpiresIn[1] > 0
      THEN LET ttl == req.ExpiresIn[1]
           IN  <<clock + (IF cfg.maxTTL > 0 /\ ttl > cfg.maxTTL THEN cfg.maxTTL ELSE ttl)>>
      ELSE IF cfg.defaultTTL > 0 THEN <<clock + cfg.defaultTTL>>
      ELSE <<>>

\* TRUE when Create takes the request's alias as the code
UsesAlias(req) == req.CustomAlias # <<>> /\ req.CustomAlias[1] # <<>>

\* a variant of Create that only logs a failed cache write, as GetURL does
\* (ruled out by C14)
CreateWithLenient(shortCode, req, f) ==
    LET urlEntry == [ShortURL    |-> shortCode,
                     OriginalURL |-> req.OriginalURL,
                     ExpiresAt   |-> ExpiresAtFor(req),
                     IsActive    |-> TRUE,
                     CreatedAt   |-> 0,
                     UpdatedAt   |-> 0]
        ins == PgCreate(db, urlEntry, f.query)
        set == CacheSet(cache, ins.url, cfg.cacheTTL, f.write)
    IN  IF ins.err # NoErr
          THEN [resp |-> <<>>, err |-> ins.err, db |-> ins.db, cache |-> cache,
                calls |-> <<"db.Create">>,
                errs |-> [NoErrs EXCEPT !.query = ins.err]]
          ELSE [resp |-> <<[ShortCode   |-> shortCode,
                            ShortURL    |-> <<cfg.baseURL, "/">> \o shortCode,
                            OriginalURL |-> req.OriginalURL,
                            ExpiresAt   |-> urlEntry.ExpiresAt,
                            CreatedAt   |-> ins.url.CreatedAt]>>,
                err |-> NoErr, db |-> ins.db, cache |-> set.cache,
                calls |-> <<"db.Create", "cache.Set">>,
                errs |-> [NoErrs EXCEPT !.query = ins.err, !.set = set.err]]

\* a variant of Create that takes the row back when the cache write fails
\* (ruled out by C26)
CreateWithRollback(shortCode, req, f) ==
    LET urlEntry == [ShortURL    |-> shortCode,
                     OriginalURL |-> req.OriginalURL,
                     ExpiresAt   |-> ExpiresAtFor(req),
                     IsActive    |-> TRUE,
                     CreatedAt   |-> 0,
                     UpdatedAt   |-> 0]
        ins == PgCreate(db, urlEntry, f.query)
        set == CacheSet(cache, ins.url, cfg.cacheTTL, f.write)
    IN  IF ins.err # NoErr
          THEN [resp |-> <<>>, err |-> ins.err, db |-> ins.db, cache |-> cache,
                calls |-> <<"db.Create">>,
                errs |-> [NoErrs EXCEPT !.query = ins.err]]
        ELSE IF set.err # NoErr
          THEN [resp |-> <<>>, err |-> set.err, db |-> db, cache |-> set.cache,
                calls |-> <<"db.Create", "cache.Set">>,
                errs |-> [NoErrs EXCEPT !.query = ins.err, !.set = set.err]]
        ELSE [resp |-> <<[ShortCode   |-> shortCode,
                          ShortURL    |-> <<cfg.baseURL, "/">> \o shortCode,
                          OriginalURL |-> req.OriginalURL,
                          ExpiresAt   |-> urlEntry.ExpiresAt,
                          CreatedAt   |-> ins.url.CreatedAt]>>,
              err |-> NoErr, db |-> ins.db, cache |-> set.cache,
              calls |-> <<"db.Create", "cache.Set">>,
              errs |-> [NoErrs EXCEPT !.query = ins.err, !.set = set.err]]

\* URLService.Create from the code on: the entry, the insert, the cache write
CreateWith(shortCode, req, f) ==
    LET urlEntry == [ShortURL    |-> shortCode,
                     OriginalURL |-> req.OriginalURL,
                     ExpiresAt   |-> ExpiresAtFor(req),
                     IsActive    |-> TRUE,
                     CreatedAt   |-> 0,
                     UpdatedAt   |-> 0]
        ins == PgCreate(db, urlEntry, f.query)
        set == CacheSet(cache, ins.url, cfg.cacheTTL, f.write)
    IN  IF ins.err # NoErr
          THEN [resp |-> <<>>, err |-> ins.err, db |-> ins.db, cache |-> cache,
                calls |-> <<"db.Create">>,
                errs |-> [NoErrs EXCEPT !.query = ins.err]]
        ELSE IF set.err # NoErr
          THEN [resp |-> <<>>, err |-> set.err, db |-> ins.db, cache |-> set.cache,
                calls |-> <<"db.Create", "cache.Set">>,
                errs |-> [NoErrs EXCEPT !.query = ins.err, !.set = set.err]]
        ELSE [resp |-> <<[ShortCode   |-> shortCode,
                          ShortURL    |-> <<cfg.baseURL, "/">> \o shortCode,
                          OriginalURL |-> req.OriginalURL,
                          ExpiresAt   |-> urlEntry.ExpiresAt,
                          CreatedAt   |-> ins.url.CreatedAt]>>,
              err |-> NoErr, db |-> ins.db, cache |-> set.cache,
              calls |-> <<"db.Create", "cache.Set">>,
              errs |-> [NoErrs EXCEPT !.query = ins.err, !.set = set.err]]

(***************************************************************************)
(* internal/handler                                                        *)
(***************************************************************************)
\* URLHandler.handleError: the HTTP status an error is answered with
handleError(err) ==
    CASE err = ErrURLNotFound       -> 404
      [] err = ErrURLExpired        -> 410
      [] err = ErrInvalidURL        -> 400
      [] err = ErrShortCodeExists   -> 409
      [] err = ErrInvalidShortCode  -> 400
      [] err = ErrRateLimitExceeded -> 429
      [] OTHER                      -> 500

\* the failures a lookup and a create may meet
\* (a call that follows a failed query is never made, so its failure flag is
\* left FALSE there)
Failures ==
    {f \in [get : BOOLEAN, write : BOOLEAN, query : BOOLEAN] : f.query => ~f.write}
CreateFailures ==
    {f \in [get : {FALSE}, write : BOOLEAN, query : BOOLEAN] : f.query => ~f.write}

\* what a request may carry
Aliases   == {<<"m", "y">>}
URLs      == {"https://a.example"}
Requests  ==
    [OriginalURL : URLs,
     CustomAlias : {<<>>, <<<<>>>>} \cup {<<a>> : a \in Aliases},
     ExpiresIn   : {<<>>, <<0>>, <<3>>}]

\* the codes a lookup may ask for
LookupCodes == Aliases \cup {r.ShortURL : r \in db}

\* URLHandler.RedirectURL: GetURL, then a redirect or handleError
RedirectURL(shortCode, f) ==
    \E r \in {GetURL(shortCode, f)} :
        /\ cache' = r.cache
        /\ last' = [op |-> "GetURL", code |-> shortCode, req |-> <<>>, err |-> r.err, url |-> r.url,
                    resp |-> <<>>,
                    status |-> IF r.err # NoErr THEN handleError(r.err) ELSE 301,
                    calls |-> r.calls, errs |-> r.errs]
        /\ UNCHANGED <<clock, regressed, cfg, db, codecVars, genVars>>

\* the store has room for the row a Create of this code would insert
RoomFor(shortCode, f) ==
    \/ f.query
    \/ \E r \in db : r.ShortURL = shortCode
    \/ Cardinality(db) < MaxRows

\* URLHandler.CreateURL with a custom alias
CreateURLAlias(req, f) ==
    /\ UsesAlias(req)
    /\ RoomFor(req.CustomAlias[1], f)
    /\ \E r \in {CreateWith(req.CustomAlias[1], req, f)} :
           /\ Cardinality(r.db) <= MaxRows
           /\ db' = r.db
           /\ cache' = r.cache
           /\ last' = [op |-> "Create", code |-> req.CustomAlias[1], req |-> <<req>>,
                       err |-> r.err,
                       url |-> <<>>, resp |-> r.resp,
                       status |-> IF r.err # NoErr THEN handleError(r.err) ELSE 201,
                       calls |-> r.calls, errs |-> r.errs]
    /\ UNCHANGED <<clock, regressed, cfg, codecVars, genVars>>

\* URLHandler.CreateURL without one: the code comes from keyGen.Generate(),
\* which runs to completion inside the call
CreateURLGenerated ==
    /\ mu = NoHolder
    /\ \E g \in {GenerateRead(currentTimestamp, sequence, lastTimestamp)} :
         /\ ~g.wait
         /\ sequence' = g.sequence
         /\ lastTimestamp' = currentTimestamp
         /\ \E it \in {Issue(NoHolder, currentTimestamp, g.sequence, FALSE)} :
            \E req \in {x \in Requests : ~UsesAlias(x)},
               f \in {x \in CreateFailures : RoomFor(it.code, x)} :
              \E r \in {CreateWith(it.code, req, f)} :
                 /\ Cardinality(r.db) <= MaxRows
                 /\ db' = r.db
                 /\ cache' = r.cache
                 /\ last' = [op |-> "Create", code |-> it.code, req |-> <<req>>,
                             err |-> r.err,
                             url |-> <<>>, resp |-> r.resp,
                             status |-> IF r.err # NoErr THEN handleError(r.err) ELSE 201,
                             calls |-> <<"keyGen.Generate">> \o r.calls,
                             errs |-> r.errs]
    /\ UNCHANGED <<clock, regressed, cfg, codecVars>>
    /\ UNCHANGED <<genCfg, genErr, machineID, minLength, maxLength, mu, gpc, overlapped, issued>>

(***************************************************************************)
(* Initial states and specifications.                                      *)
(***************************************************************************)
\* the configuration cmd/api/main.go passes when the environment sets nothing
MainGenConfig == [MachineID |-> 1, MinLength |-> 6, MaxLength |-> 10]
MainServiceConfig == [DefaultTTL |-> 2, MaxTTL |-> 0, AllowCustom |-> TRUE, CacheTTL |-> ServiceCacheTTL]

\* a row of an earlier run that has since been deactivated in the database
InactiveRow ==
    [ShortURL |-> <<"m", "y">>, OriginalURL |-> "https://a.example", ExpiresAt |-> <<>>,
     IsActive |-> FALSE, CreatedAt |-> 0, UpdatedAt |-> 0]

NumInputs == (0..MaxNum) \cup {Base ^ 2 - 1, Base ^ 2, Base ^ 3 - 1, Base ^ 3}

ClockInit ==
    /\ clock = EPoch
    /\ regressed = FALSE

CodecOff ==
    /\ cpc = "off"
    /\ num = 0
    /\ minLen = 0
    /\ padded = FALSE
    /\ str = <<>>
    /\ decoded = NoDecode

GenInit(c) ==
    LET g == NewSnowflakeGenerator(c)
    IN  /\ genCfg = c
        /\ genErr = g.err
        /\ machineID = g.machineID
        /\ minLength = g.minLength
        /\ maxLength = g.maxLength
        /\ sequence = g.sequence
        /\ lastTimestamp = g.lastTimestamp
        /\ mu = NoHolder
        /\ gpc = [p \in Callers |-> "idle"]
        /\ overlapped = [p \in Callers |-> FALSE]
        /\ issued = <<>>

SvcInit(c, rows) ==
    /\ cfg = NewURLService(c)
    /\ db = rows
    /\ cache = {}
    /\ last = NoCall

\* the service: main() builds the generator and the service, then serves
Init ==
    /\ ClockInit
    /\ CodecOff
    /\ GenInit(MainGenConfig)
    /\ \E c \in ServiceConfigs, rows \in {{}, {InactiveRow}} : SvcInit(c, rows)

Next ==
    \/ Tick
    \/ \E code \in LookupCodes, f \in Failures : RedirectURL(code, f)
    \/ \E req \in Requests, f \in CreateFailures : CreateURLAlias(req, f)
    \/ CreateURLGenerated

Spec == Init /\ [][Next]_vars

\* the generator alone, under concurrent callers
InitGen ==
    /\ ClockInit
    /\ CodecOff
    /\ \E c \in GenConfigs : GenInit(c)
    /\ SvcInit(MainServiceConfig, {})

NextGen ==
    \/ Tick
    \/ Regress
    \/ \E p \in Callers : GenCall(p)
    \/ \E p \in Callers : GenLock(p)
    \/ \E p \in Callers : GenBody(p)

SpecGen == InitGen /\ [][NextGen]_vars

\* the codec alone
InitCodec ==
    /\ ClockInit
    /\ \/ /\ cpc = "input"
          /\ num \in NumInputs
          /\ minLen \in 0..MaxPad
          /\ padded \in BOOLEAN
          /\ str = <<>>
       \/ /\ cpc = "raw"
          /\ num = 0
          /\ minLen = 0
          /\ padded = FALSE
          /\ str \in RawStrings
    /\ decoded = NoDecode
    /\ GenInit(MainGenConfig)
    /\ SvcInit(MainServiceConfig, {})

NextCodec ==
    \/ DoEncode /\ UNCHANGED <<clock, regressed, genVars, svcVars>>
    \/ DoDecode /\ UNCHANGED <<clock, regressed, genVars, svcVars>>
    \/ DoDecodeRaw /\ UNCHANGED <<clock, regressed, genVars, svcVars>>

SpecCodec == InitCodec /\ [][NextCodec]_vars

(***************************************************************************)
(* Vocabulary of the properties below.                                     *)
(***************************************************************************)
\* the fields of a packed identifier
TimestampField(id) == id \div (2 ^ TimestampShift)
MachineField(id)   == (id \div (2 ^ MachineIDShift)) % (2 ^ MachineIDBits)
SequenceField(id)  == id % (2 ^ SequenceBits)

\* the redis entries held for a code, and the rows the lookup query selects
EntriesFor(store, code) == {e \in store : e.key = <<"url:">> \o code}
ActiveRows(rows, code)  == {r \in rows : r.ShortURL = code /\ r.IsActive}

\* the record a redis entry stands for
RecordOf(e) ==
    [ShortURL    |-> e.data["short_url"],
     OriginalURL |-> e.data["original_url"],
     CreatedAt   |-> e.data["created_at"],
     UpdatedAt   |-> e.data["updated_at"],
     ExpiresAt   |-> IF "expires_at" \in DOMAIN e.data THEN <<e.data["expires_at"]>> ELSE <<>>,
     IsActive    |-> e.data["is_active"]]

\* a record's expiration instant lies before instant t / not before it
PastAt(u, t)  == u.ExpiresAt # <<>> /\ u.ExpiresAt[1] < t
ValidAt(u, t) == u.ExpiresAt = <<>> \/ u.ExpiresAt[1] >= t

\* the step taken is a GetURL call for `code` whose redis read did not fail
LookupStep(code) == last'.op = "GetURL" /\ last'.code = code /\ last'.errs.get = NoErr

AllCodes == Aliases \cup {r.ShortURL : r \in db} \cup {RecordOf(e).ShortURL : e \in cache}

(***************************************************************************)
(* C1  Base-62 round trip: decoding what Encode or EncodePadded produced   *)
(* for n (with any minimum length) succeeds and gives n back.              *)
(***************************************************************************)
C1_RoundTrip ==
    cpc = "decoded" => (decoded.err = NoErr /\ decoded.val = num)

(***************************************************************************)
(* C2  While the clock has never moved backward, the identifiers one       *)
(* generator issued are strictly increasing in order of issue (hence       *)
(* pairwise distinct), also when calls share a millisecond.                *)
(***************************************************************************)
C2_StrictlyIncreasing ==
    ~regressed =>
        \A i \in 1..Len(issued), j \in 1..Len(issued) :
            i < j => issued[i].id < issued[j].id

(***************************************************************************)
(* C3  Two overlapping Generate calls that read the same millisecond       *)
(* return different codes; their identifiers agree in the timestamp and    *)
(* machine-id fields and differ in the sequence field.                     *)
(***************************************************************************)
C3_ConcurrentDistinct ==
    \A i \in 2..Len(issued) :
        (issued[i].concurrent /\ issued[i].timestamp = issued[i - 1].timestamp) =>
            /\ issued[i].code # issued[i - 1].code
            /\ TimestampField(issued[i].id) = TimestampField(issued[i - 1].id)
            /\ MachineField(issued[i].id) = MachineField(issued[i - 1].id)
            /\ SequenceField(issued[i].id) # SequenceField(issued[i - 1].id)

(***************************************************************************)
(* C4  A Generate call that reads a time below lastTimestamp issues an     *)
(* identifier not smaller than any issued before it, and does not lower    *)
(* lastTimestamp.                                                          *)
(***************************************************************************)
C4_NoDecreaseUnderRegression ==
    \A j \in 1..Len(issued) :
        issued[j].regression =>
            /\ \A i \in 1..(j - 1) : issued[j].id >= issued[i].id
            /\ issued[j].timestamp >= issued[j].lastBefore

(***************************************************************************)
(* C5  (as claimed) A successful GetURL carries a record with no           *)
(* expiration or an expiration strictly after the time of the call.        *)
(***************************************************************************)
C5_ExpirationInFuture ==
    (last.op = "GetURL" /\ last.err = NoErr) =>
        /\ last.url # <<>>
        /\ \/ last.url[1].ExpiresAt = <<>>
           \/ last.url[1].ExpiresAt[1] > clock

(***************************************************************************)
(* C5  (amended) A successful GetURL, by the cache or by the durable       *)
(* store, never carries a record whose expiration instant lies before the  *)
(* time of the call; a record expiring at that very instant is served.     *)
(***************************************************************************)
C5_NeverPastExpiration ==
    (last.op = "GetURL" /\ last.err = NoErr) =>
        /\ last.url # <<>>
        /\ ValidAt(last.url[1], clock)
        /\ last.url[1].ShortURL = last.code

\* a record is served from the cache at the instant it expires
C5_Witness ==
    /\ last.op = "GetURL"
    /\ last.err = NoErr
    /\ last.calls = <<"cache.Get">>
    /\ last.url[1].ExpiresAt = <<clock>>

(***************************************************************************)
(* C6  (as claimed) GetURL on a code cached with an expiration in the      *)
(* past fails with Expired and leaves no cache entry for the code.         *)
(***************************************************************************)
C6_ExpiredHitEvicted ==
    [][ \A code \in AllCodes :
          (LookupStep(code) /\ \E e \in EntriesFor(cache, code) : PastAt(RecordOf(e), clock))
            => /\ last'.err = ErrURLExpired
               /\ EntriesFor(cache', code) = {} ]_vars

(***************************************************************************)
(* C6  (amended) GetURL on a code cached with an expiration in the past    *)
(* issues a cache delete for it, whose error it ignores, and fails with    *)
(* Expired without querying the durable store; the entry is gone when the  *)
(* delete succeeded and is left as it was when the delete failed.          *)
(***************************************************************************)
C6_ExpiredHitDeleteIssued ==
    [][ \A code \in AllCodes :
          (LookupStep(code) /\ \E e \in EntriesFor(cache, code) : PastAt(RecordOf(e), clock))
            => /\ last'.err = ErrURLExpired
               /\ last'.url = <<>>
               /\ last'.calls = <<"cache.Get", "cache.Delete">>
               /\ last'.errs.del = NoErr => EntriesFor(cache', code) = {}
               /\ last'.errs.del # NoErr => cache' = cache
               /\ db' = db ]_vars

\* an expired entry was found, deleted, and is no longer in the cache
C6_Witness ==
    /\ last.op = "GetURL"
    /\ last.err = ErrURLExpired
    /\ last.calls = <<"cache.Get", "cache.Delete">>
    /\ last.errs.del = NoErr
    /\ EntriesFor(cache, last.code) = {}
    /\ \E r \in ActiveRows(db, last.code) : PastAt(r, clock)

(***************************************************************************)
(* C7  (as claimed) GetURL on a code absent from the cache and present,    *)
(* active and unexpired in the durable store returns that record and       *)
(* leaves it in the cache with the configured TTL, so that a cache get     *)
(* returns the same record.                                                *)
(***************************************************************************)
C7_MissPopulatesCache ==
    [][ \A code \in AllCodes : \A r \in ActiveRows(db, code) :
          (LookupStep(code) /\ EntriesFor(cache, code) = {} /\ ValidAt(r, clock))
            => /\ last'.err = NoErr
               /\ last'.url = <<r>>
               /\ \E e \in EntriesFor(cache', code) : RecordOf(e) = r /\ e.ttl = cfg.cacheTTL ]_vars

(***************************************************************************)
(* C7  (amended) GetURL on a code absent from the cache and present,       *)
(* active and unexpired in the durable store returns that record whenever  *)
(* the store query succeeds, and then issues one cache write; when that    *)
(* write succeeds the cache holds exactly that record under the            *)
(* configured TTL, and when it fails the cache is left unchanged.  When    *)
(* the store query fails, its error is returned and nothing is cached.     *)
(***************************************************************************)
C7_MissPopulatesCacheIfWriteSucceeds ==
    [][ \A code \in AllCodes : \A r \in ActiveRows(db, code) :
          (LookupStep(code) /\ EntriesFor(cache, code) = {} /\ ValidAt(r, clock))
            => IF last'.errs.query # NoErr
                 THEN /\ last'.err = last'.errs.query
                      /\ last'.url = <<>>
                      /\ cache' = cache
                 ELSE /\ last'.err = NoErr
                      /\ last'.url = <<r>>
                      /\ last'.calls = <<"cache.Get", "db.GetByShortCode", "cache.Set">>
                      /\ last'.errs.set = NoErr =>
                            /\ \A e \in EntriesFor(cache', code) :
                                  RecordOf(e) = r /\ e.ttl = cfg.cacheTTL
                            /\ Cardinality(EntriesFor(cache', code)) = 1
                      /\ last'.errs.set # NoErr => cache' = cache ]_vars

\* a miss was answered from the durable store and the record is now cached
C7_Witness ==
    /\ last.op = "GetURL"
    /\ last.err = NoErr
    /\ last.calls = <<"cache.Get", "db.GetByShortCode", "cache.Set">>
    /\ last.errs.get = NoErr
    /\ last.errs.set = NoErr
    /\ \E e \in EntriesFor(cache, last.code) :
          <<RecordOf(e)>> = last.url /\ e.ttl = cfg.cacheTTL /\ e.ttl # RedisDefaultTTL

(***************************************************************************)
(* C8  On a cache hit with an unexpired record GetURL returns the cached   *)
(* record, calls nothing but the cache read, and leaves the durable store  *)
(* and the cache unchanged.                                                *)
(***************************************************************************)
C8_HitIsFastPath ==
    [][ \A code \in AllCodes : \A e \in EntriesFor(cache, code) :
          (LookupStep(code) /\ ValidAt(RecordOf(e), clock))
            => /\ last'.err = NoErr
               /\ last'.url = <<RecordOf(e)>>
               /\ last'.calls = <<"cache.Get">>
               /\ db' = db
               /\ cache' = cache ]_vars

\* an unexpired record carrying an expiration was served from the cache
C8_Witness ==
    /\ last.op = "GetURL"
    /\ last.err = NoErr
    /\ last.calls = <<"cache.Get">>
    /\ last.errs.get = NoErr
    /\ last.url[1].ExpiresAt # <<>>
    /\ \E e \in EntriesFor(cache, last.code) : <<RecordOf(e)>> = last.url

(***************************************************************************)
(* C9  Cache failures never change what GetURL answers: when the cache     *)
(* read fails the answer is the durable store's, exactly as on a miss,     *)
(* and when the cache write after a store hit fails the record is still    *)
(* returned.  No GetURL ever fails with the cache's error.                 *)
(***************************************************************************)
C9_CacheFailuresAbsorbed ==
    last.op = "GetURL" =>
        /\ last.err # ErrRedisDown
        /\ last.errs.get = ErrRedisDown =>
              /\ Len(last.calls) >= 2
              /\ last.calls[2] = "db.GetByShortCode"
              /\ last.err = last.errs.query
              /\ last.errs.query = NoErr =>
                    /\ last.url # <<>>
                    /\ last.url[1] \in ActiveRows(db, last.code)
                    /\ ValidAt(last.url[1], clock)
              /\ (last.errs.query # ErrDBDown /\ ActiveRows(db, last.code) = {}) =>
                    last.err # NoErr
              /\ (last.errs.query # ErrDBDown
                    /\ \E r \in ActiveRows(db, last.code) : PastAt(r, clock)) =>
                    last.err = ErrURLExpired
              /\ (last.errs.query # ErrDBDown
                    /\ \E r \in ActiveRows(db, last.code) : ValidAt(r, clock)) =>
                    last.err = NoErr
        /\ last.errs.set = ErrRedisDown =>
              /\ last.err = NoErr
              /\ last.url # <<>>
              /\ last.url[1] \in ActiveRows(db, last.code)

\* the cache read and the cache write both failed and the record was returned
C9_Witness ==
    /\ last.op = "GetURL"
    /\ last.errs.get = ErrRedisDown
    /\ last.errs.set = ErrRedisDown
    /\ last.err = NoErr
    /\ last.status = 301
    /\ last.url[1] \in ActiveRows(db, last.code)

(***************************************************************************)
(* C10  GetURL on a code that is absent from the cache and absent from,    *)
(* or inactive in, the durable store fails with the taxonomy's NotFound    *)
(* error, which the handler answers differently from Expired and from      *)
(* other store failures, and leaves the cache without an entry for it.     *)
(***************************************************************************)
C10_NotFound ==
    [][ \A code \in AllCodes :
          (LookupStep(code) /\ EntriesFor(cache, code) = {} /\ ActiveRows(db, code) = {}
             /\ last'.errs.query # ErrDBDown)
            => /\ last'.err = ErrURLNotFound
               /\ last'.status = handleError(ErrURLNotFound)
               /\ last'.status # handleError(ErrDBDown)
               /\ EntriesFor(cache', code) = {} ]_vars

(***************************************************************************)
(* C11  GetURL on a code that has no cache entry and whose active row in   *)
(* the durable store has an expiration in the past fails with Expired      *)
(* (when the store answers the query), makes no cache write and leaves     *)
(* the cache as it was.                                                    *)
(***************************************************************************)
C11_ColdExpiredNotCached ==
    [][ \A code \in AllCodes : \A r \in ActiveRows(db, code) :
          (/\ last'.op = "GetURL" /\ last'.code = code
           /\ EntriesFor(cache, code) = {}
           /\ PastAt(r, clock)
           /\ last'.errs.query # ErrDBDown)
            => /\ last'.err = ErrURLExpired
               /\ last'.url = <<>>
               /\ last'.status = handleError(ErrURLExpired)
               /\ last'.calls = <<"cache.Get", "db.GetByShortCode">>
               /\ last'.errs.set = "-"
               /\ cache' = cache ]_vars

\* a cold lookup of an expired row failed with Expired and cached nothing
C11_Witness ==
    /\ last.op = "GetURL"
    /\ last.err = ErrURLExpired
    /\ last.calls = <<"cache.Get", "db.GetByShortCode">>
    /\ last.errs.get = NoErr
    /\ EntriesFor(cache, last.code) = {}
    /\ \E r \in ActiveRows(db, last.code) : PastAt(r, clock)

\* the smaller of two lifetimes
Min(a, b) == IF a <= b THEN a ELSE b

\* the rows Create inserted for the code of the step just taken
CreatedRows == {r \in db : r.ShortURL = last.code /\ r.CreatedAt = clock}

\* the step just taken was a Create whose insert succeeded
Inserted == last.op = "Create" /\ last.errs.query = NoErr

(***************************************************************************)
(* C12  (as claimed) The expiration Create stores is now + min(requested   *)
(* lifetime, configured maximum) whenever the request carries a lifetime,  *)
(* otherwise now + the default lifetime when one is set, otherwise none.   *)
(* A maximum of zero is read as no maximum.                                *)
(***************************************************************************)
C12_ExpirationStored ==
    Inserted =>
        /\ CreatedRows # {}
        /\ \A r \in CreatedRows :
              LET lifetime == last.req[1].ExpiresIn
              IN  r.ExpiresAt =
                    IF lifetime # <<>>
                      THEN <<clock + (IF cfg.maxTTL > 0 THEN Min(lifetime[1], cfg.maxTTL)
                                                        ELSE lifetime[1])>>
                    ELSE IF cfg.defaultTTL > 0 THEN <<clock + cfg.defaultTTL>>
                    ELSE <<>>

(***************************************************************************)
(* C12  (amended) The expiration Create stores is now + the requested      *)
(* lifetime, clamped to the configured maximum when a maximum is set,      *)
(* whenever the request carries a positive lifetime; a request with no     *)
(* lifetime or a lifetime of zero gets now + the default lifetime when a   *)
(* default is set, and no expiration otherwise.                            *)
(***************************************************************************)
C12_ExpirationStoredPositive ==
    Inserted =>
        /\ CreatedRows # {}
        /\ \A r \in CreatedRows :
              LET lifetime == last.req[1].ExpiresIn
              IN  r.ExpiresAt =
                    IF lifetime # <<>> /\ lifetime[1] > 0
                      THEN <<clock + (IF cfg.maxTTL > 0 THEN Min(lifetime[1], cfg.maxTTL)
                                                        ELSE lifetime[1])>>
                    ELSE IF cfg.defaultTTL > 0 THEN <<clock + cfg.defaultTTL>>
                    ELSE <<>>

\* a requested lifetime above the maximum was stored as now + the maximum
C12_Witness ==
    /\ Inserted
    /\ last.err = NoErr
    /\ last.req[1].ExpiresIn # <<>>
    /\ cfg.maxTTL > 0
    /\ last.req[1].ExpiresIn[1] > cfg.maxTTL
    /\ \E r \in CreatedRows : r.ExpiresAt = <<clock + cfg.maxTTL>>

(***************************************************************************)
(* C13  Create takes the request's alias verbatim as the code only when    *)
(* an alias is supplied and the configuration permits custom aliases; in   *)
(* every other case the code comes from the generator's Generate.          *)
(***************************************************************************)
C13_AliasOnlyWhenPermitted ==
    last.op = "Create" =>
        LET alias    == last.req[1].CustomAlias
            supplied == alias # <<>> /\ alias[1] # <<>>
        IN  IF supplied /\ cfg.allowCustom
              THEN /\ last.code = alias[1]
                   /\ "keyGen.Generate" \notin Range(last.calls)
              ELSE /\ last.calls # <<>>
                   /\ last.calls[1] = "keyGen.Generate"

(***************************************************************************)
(* C14  When the cache write of Create fails after the insert into the     *)
(* durable store succeeded, Create returns the cache's error and no        *)
(* response; the inserted row stays in the store.                          *)
(***************************************************************************)
C14_CreateCacheFailurePropagates ==
    (Inserted /\ last.errs.set = ErrRedisDown) =>
        /\ last.err = ErrRedisDown
        /\ last.resp = <<>>
        /\ last.status = handleError(ErrRedisDown)
        /\ last.status # 201
        /\ CreatedRows # {}

\* a Create inserted its row, failed on the cache write and returned that error
C14_Witness ==
    /\ Inserted
    /\ last.calls = <<"db.Create", "cache.Set">>
    /\ last.errs.set = ErrRedisDown
    /\ last.err = ErrRedisDown
    /\ last.resp = <<>>
    /\ CreatedRows # {}
    /\ EntriesFor(cache, last.code) = {}

(***************************************************************************)
(* C15  Whenever Create returns success, the durable store holds a row     *)
(* for the returned code and the cache holds one entry for that code       *)
(* carrying the same record: original URL, expiration, active flag and     *)
(* timestamps.                                                             *)
(***************************************************************************)
C15_CreateSuccessBothStores ==
    (last.op = "Create" /\ last.err = NoErr) =>
        /\ last.resp # <<>>
        /\ LET code == last.resp[1].ShortCode
           IN  /\ code = last.code
               /\ Cardinality(EntriesFor(cache, code)) = 1
               /\ \E r \in db :
                     /\ r.ShortURL = code
                     /\ r.IsActive
                     /\ r.OriginalURL = last.req[1].OriginalURL
                     /\ r.ExpiresAt = last.resp[1].ExpiresAt
                     /\ r.CreatedAt = last.resp[1].CreatedAt
                     /\ \A e \in EntriesFor(cache, code) : RecordOf(e) = r

\* a Create with a generated code and an expiration succeeded
C15_Witness ==
    /\ last.op = "Create"
    /\ last.err = NoErr
    /\ last.status = 201
    /\ last.calls = <<"keyGen.Generate", "db.Create", "cache.Set">>
    /\ last.resp[1].ExpiresAt # <<>>
    /\ \E r \in db : r.ShortURL = last.code /\ r.CreatedAt = clock

(***************************************************************************)
(* C16  A Create whose custom alias equals a code already in the durable   *)
(* store is rejected with the AlreadyExists error, which the handler       *)
(* answers as a conflict, and leaves the store and the cache unchanged.    *)
(***************************************************************************)
C16_DuplicateAliasRejected ==
    [][ (/\ last'.op = "Create"
         /\ last'.req # <<>>
         /\ UsesAlias(last'.req[1])
         /\ \E r \in db : r.ShortURL = last'.req[1].CustomAlias[1]
         /\ last'.errs.query # ErrDBDown)
          => /\ last'.err = ErrShortCodeExists
             /\ last'.status = handleError(ErrShortCodeExists)
             /\ last'.status # handleError(ErrDBDown)
             /\ db' = db
             /\ cache' = cache ]_vars

\* the callers between the clock read of Generate and its return
InCritical == {p \in Callers : gpc[p] \in {"locked", "wait"}}

(***************************************************************************)
(* C17  Generate calls on one generator are serialized: at most one call   *)
(* is between reading the clock and writing lastTimestamp, that call holds *)
(* the mutex, and while a call is inside waitNextMillis no other call      *)
(* completes.                                                              *)
(***************************************************************************)
C17_Serialized ==
    /\ [](Cardinality(InCritical) <= 1)
    /\ [](\A p \in InCritical : mu = p)
    /\ [][ \A p \in Callers :
             gpc[p] = "wait" =>
               (Len(issued') > Len(issued) => issued'[Len(issued')].caller = p) ]_vars

\* one call is inside the critical section while another is blocked on the mutex
C17_Witness ==
    \E p \in Callers, q \in Callers :
        /\ p # q
        /\ gpc[p] = "locked"
        /\ mu = p
        /\ gpc[q] = "lock"

(***************************************************************************)
(* C18  NewSnowflakeGenerator fails with the invalid-machine-id error      *)
(* exactly when the configured machine id is outside 0..1023: it fails     *)
(* for -1 and 1024 and succeeds for 0 and 1023.                            *)
(***************************************************************************)
C18_MachineIDRange ==
    /\ (genErr # NoErr) <=> (genCfg.MachineID < 0 \/ genCfg.MachineID > 1023)
    /\ genErr \in {NoErr, "machine ID must be between 0 and 1023"}
    /\ genCfg.MachineID \in {-1, 1024} => genErr # NoErr
    /\ genCfg.MachineID \in {0, 1023} => (genErr = NoErr /\ machineID = genCfg.MachineID)

\* construction with machine id 1024 failed
C18_Witness ==
    /\ genCfg.MachineID = 1024
    /\ genErr = "machine ID must be between 0 and 1023"

(***************************************************************************)
(* C19  Every code Generate returns consists of alphabet characters only   *)
(* and has a length within the configured [minLength, maxLength].          *)
(***************************************************************************)
C19_CodeShape ==
    \A i \in 1..Len(issued) :
        /\ \A k \in 1..Len(issued[i].code) : issued[i].code[k] \in Range(Alphabet)
        /\ Len(issued[i].code) >= minLength
        /\ Len(issued[i].code) <= maxLength

(***************************************************************************)
(* C20  EncodePadded(n, L) has length max(L, len(Encode(n))) and is        *)
(* Encode(n) preceded by zero or more copies of the character "0".         *)
(***************************************************************************)
C20_PaddedShape ==
    (cpc \in {"encoded", "decoded"} /\ padded) =>
        LET e == Encode(num)
            k == Len(str) - Len(e)
        IN  /\ Len(str) = (IF minLen > Len(e) THEN minLen ELSE Len(e))
            /\ k >= 0
            /\ SubSeq(str, k + 1, Len(str)) = e
            /\ \A i \in 1..k : str[i] = "0"

\* a short encoding was padded up to the minimum length
C20_Witness ==
    /\ cpc = "encoded"
    /\ padded
    /\ Len(str) = minLen
    /\ Len(str) > Len(Encode(num))
    /\ num > 0

\* the digit a character stands for in the order 0-9, A-Z, a-z
DigitSymbols ==
    <<"0", "1", "2", "3", "4", "5", "6", "7", "8", "9",
      "A", "B", "C", "D", "E", "F", "G", "H", "I", "J", "K", "L", "M",
      "N", "O", "P", "Q", "R", "S", "T", "U", "V", "W", "X", "Y", "Z",
      "a", "b", "c", "d", "e", "f", "g", "h", "i", "j", "k", "l", "m",
      "n", "o", "p", "q", "r", "s", "t", "u", "v", "w", "x", "y", "z">>

DigitOf(ch) == (CHOOSE i \in 1..62 : DigitSymbols[i] = ch) - 1

\* the number a digit string denotes, most significant digit first
RECURSIVE ValueOf(_)
ValueOf(s) ==
    IF s = <<>> THEN 0
    ELSE 62 * ValueOf(SubSeq(s, 1, Len(s) - 1)) + DigitOf(s[Len(s)])

(***************************************************************************)
(* C21  Encode(n) is the base-62 representation of n, most significant     *)
(* digit first, over the alphabet 0-9, A-Z, a-z, without a leading zero    *)
(* digit; Encode(0) is the single character "0".                           *)
(***************************************************************************)
C21_EncodeCanonical ==
    (cpc \in {"encoded", "decoded"} /\ ~padded) =>
        /\ str # <<>>
        /\ \A i \in 1..Len(str) : str[i] \in Range(DigitSymbols)
        /\ ValueOf(str) = num
        /\ num = 0 => str = <<"0">>
        /\ num > 0 => str[1] # "0"

\* a number of three digits was encoded
C21_Witness ==
    /\ cpc = "encoded"
    /\ ~padded
    /\ Len(str) = 3
    /\ str[1] # str[3]
    /\ ValueOf(str) = num

(***************************************************************************)
(* C22  Decode fails with the empty-input error on the empty string,       *)
(* fails with the invalid-character error on a string holding a character  *)
(* outside the alphabet, and returns no error on a non-empty string of     *)
(* alphabet characters.                                                    *)
(***************************************************************************)
C22_DecodeErrors ==
    cpc \in {"decoded", "rawdecoded"} =>
        IF str = <<>>
          THEN decoded.err = "empty string"
        ELSE IF \E i \in 1..Len(str) : str[i] \notin Range(DigitSymbols)
          THEN decoded.err = "invalid character in base62 string"
        ELSE decoded.err = NoErr

\* a string whose second character is outside the alphabet was rejected
C22_Witness ==
    /\ cpc = "rawdecoded"
    /\ Len(str) = 2
    /\ str[1] \in Range(DigitSymbols)
    /\ str[2] \notin Range(DigitSymbols)
    /\ decoded.err = "invalid character in base62 string"

C24_PackedFields ==
    /\ \A i \in 1..Len(issued) :
          LET e == issued[i]
          IN  /\ TimestampField(e.id) = e.timestamp - EPoch
              /\ MachineField(e.id) = machineID
              /\ SequenceField(e.id) = e.sequence
              /\ e.sequence \in 0..MaxSequence
              /\ e.id = (e.timestamp - EPoch) * 2 ^ TimestampShift
                            + machineID * 2 ^ MachineIDShift + e.sequence
    /\ issued # <<>> => lastTimestamp = issued[Len(issued)].timestamp

\* an identifier of the largest machine id issued after the epoch
C24_Witness ==
    \E i \in 1..Len(issued) :
        /\ machineID = MaxMachineID
        /\ issued[i].timestamp > EPoch
        /\ MachineField(issued[i].id) = MaxMachineID

(***************************************************************************)
(* C27  The generator's sequence field is 0 whenever no Generate call is   *)
(* between its clock read and its return, for every clock behaviour, also  *)
(* after a clock regression; no call ever enters waitNextMillis, and every *)
(* issued identifier has sequence field 0.                                 *)
(***************************************************************************)
C27_SequenceAlwaysZero ==
    /\ sequence = 0
    /\ \A p \in Callers : gpc[p] # "wait"
    /\ \A i \in 1..Len(issued) :
          issued[i].sequence = 0 /\ SequenceField(issued[i].id) = 0

\* an identifier issued by the clock-regression branch
C27_Witness ==
    \E i \in 1..Len(issued) :
        /\ issued[i].regression
        /\ issued[i].timestamp < issued[i].lastBefore
        /\ issued[i].sequence = 0

(***************************************************************************)
(* C25  Cache coherence: in every reachable state, whatever calls failed   *)
(* and whatever keys redis evicted, every cache entry sits under the key   *)
(* of a code the store holds and carries exactly that row's record.        *)
(***************************************************************************)
C25_CacheCoherent ==
    \A e \in cache :
        \E r \in db : e.key = CacheKey(r.ShortURL) /\ RecordOf(e) = r

\* a lookup that missed the cache read the row and wrote it to the cache
C25_Witness ==
    /\ last.op = "GetURL"
    /\ last.errs.query = NoErr
    /\ last.errs.set = NoErr
    /\ \E e \in EntriesFor(cache, last.code) : RecordOf(e) \in db /\ <<RecordOf(e)>> = last.url

(***************************************************************************)
(* C26  Create is not atomic across the two stores.  When the insert       *)
(* succeeded and the cache write failed, Create returns the cache error    *)
(* and the row is in the store, with no cache entry.  A row is never taken *)
(* out again, so from then on a GetURL for the code returns the record     *)
(* (as long as it has not expired and the store answers when asked), and a *)
(* Create with the same alias that reaches the store fails on the          *)
(* uniqueness constraint and inserts nothing.                              *)
(***************************************************************************)
HalfCreated ==
    /\ last.op = "Create"
    /\ last.errs.query = NoErr
    /\ last.errs.set = ErrRedisDown

C26_CreateNotAtomic ==
    /\ [](HalfCreated =>
            /\ last.err = ErrRedisDown
            /\ last.resp = <<>>
            /\ \E r \in CreatedRows : r.IsActive /\ r.OriginalURL = last.req[1].OriginalURL
            /\ EntriesFor(cache, last.code) = {})
    /\ [][ /\ \A r \in db : r \in db'
           /\ \A r \in db :
                /\ ( /\ last'.op = "GetURL"
                     /\ last'.code = r.ShortURL
                     /\ r.IsActive
                     /\ ValidAt(r, clock)
                     /\ last'.errs.query # ErrDBDown )
                        => (last'.err = NoErr /\ last'.url = <<r>>)
                /\ ( /\ last'.op = "Create"
                     /\ last'.code = r.ShortURL
                     /\ last'.errs.query # ErrDBDown )
                        => (last'.err = ErrUnique /\ db' = db)
         ]_vars

\* the retry of a half-done Create with the same alias hit the constraint:
\* the row was inserted at this clock reading and never reached the cache
C26_Witness ==
    /\ last.op = "Create"
    /\ last.err = ErrUnique
    /\ last.req[1].CustomAlias = <<last.code>>
    /\ \E r \in ActiveRows(db, last.code) : r.CreatedAt = clock
    /\ EntriesFor(cache, last.code) = {}

====
